---------------------------- MODULE Spec2Model ----------------------------
(***************************************************************************)
(* github-dl: download a GitHub folder, and refresh downloaded folders.    *)
(*                                                                         *)
(* The model follows src/main.rs.  A string is a sequence of tokens (a     *)
(* token is a run of characters that the code never splits, "/" is its own *)
(* token).  A local path (PathBuf) is the sequence of its components.  The *)
(* local filesystem is a function from paths to nodes.  The remote service *)
(* is the environment: every request is answered with a status and a body  *)
(* chosen from small sets.  The command line tool is invoked repeatedly    *)
(* over the same filesystem.                                               *)
(***************************************************************************)
EXTENDS Integers, Sequences, FiniteSets, TLC

VARIABLES
    fs,      \* local filesystem: path -> [kind, data]
    pc,      \* "idle" | "resolve" | "loop" | "done" | "failed"
    cmd,     \* the running invocation: [kind, link, dir]
    stack,   \* call stack of download_dir, innermost frame last
    metas,   \* refresh: the descriptor paths found by find_metadata_files
    idx,     \* refresh: position of the for loop in metas (1-based)
    last,    \* the remote request issued by the last step, or NoReq
    started, \* TRUE when the last step was the start of an invocation
    link,    \* link parsing on its own: the input string
    parsed   \* link parsing on its own: the result of parse_github_link

vars == <<fs, pc, cmd, stack, metas, idx, last, started, link, parsed>>

----------------------------------------------------------------------------
(* Bounds of the model *)

\* entries in one listing response
MaxListing == 2
\* nesting of download_dir calls (depth of the remote tree that is served)
MaxDepth == 2
\* tokens of an input link after the scheme
MaxLinkLen == 8

----------------------------------------------------------------------------
(* Strings *)

DescName == ".github-dl.json"

\* s.split('/') on a token string: the segments, empty ones kept
RECURSIVE SplitSlash(_)
SplitSlash(s) ==
    IF \A i \in 1..Len(s) : s[i] # "/"
    THEN <<s>>
    ELSE LET k == CHOOSE i \in 1..Len(s) :
                      s[i] = "/" /\ \A j \in 1..(i - 1) : s[j] # "/"
         IN <<SubSeq(s, 1, k - 1)>> \o SplitSlash(SubSeq(s, k + 1, Len(s)))

\* segments.join("/")
RECURSIVE JoinSlash(_)
JoinSlash(segs) ==
    IF segs = <<>> THEN <<>>
    ELSE IF Len(segs) = 1 THEN segs[1]
    ELSE segs[1] \o <<"/">> \o JoinSlash(Tail(segs))

RECURSIVE SkipSlashes(_)
SkipSlashes(s) ==
    IF s # <<>> /\ Head(s) = "/" THEN SkipSlashes(Tail(s)) ELSE s

----------------------------------------------------------------------------
(* Link parser *)

NoUrl == [ok |-> FALSE, host |-> <<>>, path |-> <<>>]

\* Url::parse for an https link without port, user info, query, fragment,
\* dot segments or characters that need escaping: the slashes after the
\* scheme are skipped, the host runs to the next slash, an empty host is an
\* error, and an empty path reads "/".
UrlParse(s) ==
    IF s = <<>> \/ Head(s) # "https://" THEN NoUrl
    ELSE LET rest == SkipSlashes(Tail(s))
             host == Head(SplitSlash(rest))
             path == SubSeq(rest, Len(host) + 1, Len(rest))
         IN IF host = <<>> THEN NoUrl
            ELSE [ok |-> TRUE, host |-> host,
                  path |-> IF path = <<>> THEN <<"/">> ELSE path]

\* Url::path_segments: the path after its leading slash, split on '/'
PathSegments(url) == SplitSlash(Tail(url.path))

NoCoords == [owner |-> <<>>, repo |-> <<>>, reference |-> <<>>, path |-> <<>>]

ParseErr(e) == [ok |-> FALSE, err |-> e, coords |-> NoCoords]

\* the shape test of line 150
ShapeRejected(segments) ==
    Len(segments) < 4 \/ segments[3] # <<"tree">>

parse_github_link(s) ==
    LET url == UrlParse(s) IN
    IF ~url.ok THEN ParseErr("url")
    ELSE IF url.host # <<"github.com">> THEN ParseErr("host")
    ELSE LET segments == PathSegments(url) IN
         IF ShapeRejected(segments) THEN ParseErr("format")
         ELSE [ok |-> TRUE, err |-> "",
               coords |-> [owner |-> segments[1],
                           repo |-> segments[2],
                           reference |-> segments[4],
                           path |-> IF Len(segments) > 4
                                    THEN JoinSlash(SubSeq(segments, 5, Len(segments)))
                                    ELSE <<>>]]

----------------------------------------------------------------------------
(* Metadata and its JSON text *)

Metadata(coords, url) ==
    [owner |-> coords.owner, repo |-> coords.repo,
     reference |-> coords.reference, path |-> coords.path, url |-> url]

JsonKeys == <<"owner:", "repo:", "reference:", "path:", "url:">>

\* serde_json::to_string_pretty(&meta): the fields in declaration order
ToJson(meta) ==
    <<"{", "owner:">> \o meta.owner \o <<"repo:">> \o meta.repo
      \o <<"reference:">> \o meta.reference \o <<"path:">> \o meta.path
      \o <<"url:">> \o meta.url \o <<"}">>

KeyPos(text, key) == CHOOSE i \in 1..Len(text) : text[i] = key

\* serde_json::from_str::<Metadata>: every field present once, in an object
FromJson(text) ==
    LET wellFormed ==
            /\ Len(text) >= 7
            /\ text[1] = "{"
            /\ text[Len(text)] = "}"
            /\ \A k \in 1..5 :
                 Cardinality({i \in 1..Len(text) : text[i] = JsonKeys[k]}) = 1
            /\ KeyPos(text, JsonKeys[1]) = 2
            /\ \A k \in 1..4 :
                 KeyPos(text, JsonKeys[k]) < KeyPos(text, JsonKeys[k + 1])
        field(k) ==
            SubSeq(text, KeyPos(text, JsonKeys[k]) + 1,
                   IF k = 5 THEN Len(text) - 1
                   ELSE KeyPos(text, JsonKeys[k + 1]) - 1)
    IN IF wellFormed
       THEN [ok |-> TRUE,
             meta |-> [owner |-> field(1), repo |-> field(2),
                       reference |-> field(3), path |-> field(4),
                       url |-> field(5)]]
       ELSE [ok |-> FALSE, meta |-> Metadata(NoCoords, <<>>)]

\* the listing address of lines 97-101 and 177-181
ListingUrl(meta) ==
    <<"https://api.github.com/repos/">> \o meta.owner \o <<"/">> \o meta.repo
      \o <<"/contents">>
      \o (IF meta.path = <<>> THEN <<>> ELSE <<"/">> \o meta.path)
      \o <<"?ref=">> \o meta.reference

\* SubPath without the test for an empty parent (sensitivity of C8)
SubPath_AlwaysJoined(path, name) == path \o <<"/">> \o <<name>>

\* the child path of lines 207-211
SubPath(path, name) ==
    IF path = <<>> THEN <<name>> ELSE path \o <<"/">> \o <<name>>

\* the child descriptor of lines 212-218
SubMeta(meta, name) ==
    [owner |-> meta.owner, repo |-> meta.repo, reference |-> meta.reference,
     path |-> SubPath(meta.path, name), url |-> meta.url]

----------------------------------------------------------------------------
(* Local filesystem (std::fs) *)

DirNode == [kind |-> "dir", data |-> <<>>]
FileNode(data) == [kind |-> "file", data |-> data]

Exists(f, p) == p \in DOMAIN f
IsDir(f, p) == p \in DOMAIN f /\ f[p].kind = "dir"
IsFile(f, p) == p \in DOMAIN f /\ f[p].kind = "file"

IsPrefix(p, q) == Len(p) <= Len(q) /\ SubSeq(q, 1, Len(p)) = p
Parent(p) == SubSeq(p, 1, Len(p) - 1)
FileName(p) == p[Len(p)]

\* the entries of directory p
Children(f, p) == {q \in DOMAIN f : Len(q) = Len(p) + 1 /\ IsPrefix(p, q)}
\* everything below p
Below(f, p) == {q \in DOMAIN f : Len(q) > Len(p) /\ IsPrefix(p, q)}

FsOk(f) == [ok |-> TRUE, fs |-> f]
FsErr(f) == [ok |-> FALSE, fs |-> f]

\* fs::create_dir_all: fails when a component of p is a file
CreateDirAll(f, p) ==
    LET pre == {SubSeq(p, 1, k) : k \in 0..Len(p)} IN
    IF \E q \in pre : IsFile(f, q) THEN FsErr(f)
    ELSE FsOk([q \in DOMAIN f \cup pre |-> IF q \in DOMAIN f THEN f[q] ELSE DirNode])

\* fs::write: creates or truncates the file; the parent must be a directory
WriteFile(f, p, data) ==
    IF p = <<>> \/ ~IsDir(f, Parent(p)) \/ IsDir(f, p) THEN FsErr(f)
    ELSE FsOk([q \in DOMAIN f \cup {p} |-> IF q = p THEN FileNode(data) ELSE f[q]])

\* fs::remove_dir_all
RemoveDirAll(f, p) == [q \in {r \in DOMAIN f : ~IsPrefix(p, r)} |-> f[q]]

\* fs::remove_file
RemoveFile(f, p) == [q \in DOMAIN f \ {p} |-> f[q]]

\* Path::join
Join(p, name) == Append(p, name)

\* the loop of lines 114-125 over the entries of a directory, in any order
RECURSIVE ClearEntries(_, _)
ClearEntries(f, entries) ==
    IF entries = {} THEN f
    ELSE LET e == CHOOSE x \in entries : TRUE
             g == IF FileName(e) = DescName THEN f
                  ELSE IF IsDir(f, e) THEN RemoveDirAll(f, e)
                  ELSE RemoveFile(f, e)
         IN ClearEntries(g, entries \ {e})

\* ClearFolder that removes files and keeps subdirectories (sensitivity of C5)
ClearFolder_FilesOnly(f, dir) ==
    [q \in {r \in DOMAIN f : ~(r \in Children(f, dir) /\ IsFile(f, r)
                                  /\ FileName(r) # DescName)} |-> f[q]]

ClearFolder(f, dir) == ClearEntries(f, Children(f, dir))

\* the orders in which fs::read_dir may yield a set of entries
Perms(S) ==
    {p \in [1..Cardinality(S) -> S] :
        \A i, j \in 1..Cardinality(S) : i # j => p[i] # p[j]}

\* find_metadata_files: the descriptor paths below dir, in every order that
\* read_dir may produce (depth first, a directory's finds where it is met)
RECURSIVE FindIn(_, _), FindEntries(_, _)
FindIn(f, dir) ==
    UNION {FindEntries(f, order) : order \in Perms(Children(f, dir))}
FindEntries(f, order) ==
    IF order = <<>> THEN {<<>>}
    ELSE LET e == Head(order)
             here == IF IsDir(f, e) THEN FindIn(f, e)
                     ELSE IF FileName(e) = DescName THEN {<<e>>}
                     ELSE {<<>>}
         IN {a \o b : a \in here, b \in FindEntries(f, Tail(order))}

find_metadata_files(f, dir) == FindIn(f, dir)

----------------------------------------------------------------------------
(* The remote service: what a request may be answered with *)

Statuses == {200, 403, 404, 500}
FileStatuses == {200, 404}

\* StatusCode::is_success
IsSuccess(status) == status >= 200 /\ status < 300

\* the content a file fetch is answered with
Bytes == {<<"b1">>}

Some(u) == [some |-> TRUE, v |-> u]
None == [some |-> FALSE, v |-> <<>>]

\* struct Content
Content(name, type, download_url) ==
    [name |-> name, type |-> type, download_url |-> download_url]

RawUrl(name) == <<"https://raw.githubusercontent.com/", name>>

\* The entries the remote serves: a file with a direct-content reference, a
\* directory, an entry of a kind that is ignored, and a file that carries the
\* descriptor's name.
Entries ==
    { Content("f", "file", Some(RawUrl("f"))),
      Content("s", "dir", None),
      Content("s", "submodule", None),
      Content(DescName, "file", Some(RawUrl(DescName))) }

\* Listing responses: names are unique within one directory
Listings ==
    {l \in UNION {[1..n -> Entries] : n \in 0..MaxListing} :
        \A i, j \in 1..Len(l) : i # j => l[i].name # l[j].name}

\* the remote tree that is served is at most MaxDepth directories deep
ListingsAt(depth) ==
    IF depth < MaxDepth THEN Listings
    ELSE {l \in Listings : \A i \in 1..Len(l) : l[i].type # "dir"}

\* a request as the last step issued it: its kind, address, the status and
\* the body it was answered with, and the directory that the issuing call
\* of download_dir works on (the descriptor's folder for a probe)
NoReq == [kind |-> "none", url |-> <<>>, status |-> 0, body |-> <<>>, at |-> <<>>]
Req(kind, url, status, body, at) ==
    [kind |-> kind, url |-> url, status |-> status, body |-> body, at |-> at]

----------------------------------------------------------------------------
(* Inputs of the command line *)

GoodRootLink == <<"https://", "github.com", "/", "o", "/", "r", "/", "tree", "/", "m">>
GoodPathLink == GoodRootLink \o <<"/", "p">>
WrongHostLink == <<"https://", "gitlab.com", "/", "o", "/", "r", "/", "tree", "/", "m">>

\* the download commands that are issued: a repository root into the working
\* directory, a folder of it into the subdirectory s, and a link that is
\* rejected
DownloadArgs ==
    { [link |-> GoodRootLink, output |-> <<>>],
      [link |-> GoodPathLink, output |-> <<"s">>],
      [link |-> WrongHostLink, output |-> <<"s">>] }
BaseDirs == {<<>>, <<"s">>}

LinkTokens == {"github.com", "/", "a", "tree"}
LinkInputs ==
    LET bodies == UNION {[1..n -> LinkTokens] : n \in 0..MaxLinkLen}
    IN bodies \cup {<<"https://">> \o b : b \in bodies}

----------------------------------------------------------------------------
(* Decisions of run and download_dir *)

\* OutputCheck without the emptiness test of line 66 (sensitivity of C7)
OutputCheck_NoEmptyTest(f, output) ==
    IF ~Exists(f, output) THEN "ok"
    ELSE IF ~IsDir(f, output) THEN "io_error"
    ELSE "ok"

\* lines 65-69: the output directory may be absent or an empty directory
OutputCheck(f, output) ==
    IF ~Exists(f, output) THEN "ok"
    ELSE IF ~IsDir(f, output) THEN "io_error"
    ELSE IF Children(f, output) # {} THEN "not_empty"
    ELSE "ok"

\* WriteDescriptor that leaves the write to later (sensitivity of C3)
WriteDescriptor_Skipped(f, output, meta) == FsOk(f)

\* lines 78-80
WriteDescriptor(f, output, meta) ==
    WriteFile(f, Join(output, DescName), ToJson(meta))

\* ProbeOutcome without the 404 branch (sensitivity of C1)
ProbeOutcome_NotFoundFails(status) ==
    IF status = 403 THEN "rate_limited"
    ELSE IF ~IsSuccess(status) THEN "http_error"
    ELSE "refresh"

\* ProbeOutcome that skips on 403 as it does on 404 (sensitivity of C2)
ProbeOutcome_ForbiddenSkips(status) ==
    IF status = 404 \/ status = 403 THEN "skip"
    ELSE IF ~IsSuccess(status) THEN "http_error"
    ELSE "refresh"

\* lines 105-112: what refresh does with the status of its probe
ProbeOutcome(status) ==
    IF status = 404 THEN "skip"
    ELSE IF status = 403 THEN "rate_limited"
    ELSE IF ~IsSuccess(status) THEN "http_error"
    ELSE "refresh"

\* lines 185-189: what download_dir does with the status of a listing
ListingOutcome(status) ==
    IF status = 403 THEN "rate_limited"
    ELSE IF ~IsSuccess(status) THEN "http_error"
    ELSE "ok"

\* FileOutcome that does not look at the status (sensitivity of C6)
FileOutcome_StatusIgnored(status) == "write"

\* lines 198-200: what download_dir does with the status of a file fetch
FileOutcome(status) ==
    IF ~IsSuccess(status) THEN "http_error" ELSE "write"

\* the entry a listed frame handles next (for item in items)
NextItem(items) == Head(items)
RestItems(items) == Tail(items)

\* a call of download_dir(client, meta, local_path) that has not yet listed
Frame(meta, local_path) ==
    [meta |-> meta, local_path |-> local_path, items |-> <<>>, listed |-> FALSE]

\* lines 64-80: everything the download command does before download_dir
DownloadStart(f, l, output) ==
    LET p == parse_github_link(l)
        meta == Metadata(p.coords, l)
        fail(g) == [ok |-> FALSE, fs |-> g, meta |-> meta]
    IN IF ~p.ok THEN fail(f)
       ELSE IF OutputCheck(f, output) # "ok" THEN fail(f)
       ELSE LET made == CreateDirAll(f, output) IN
            IF ~made.ok THEN fail(made.fs)
            ELSE LET written == WriteDescriptor(made.fs, output, meta) IN
                 IF ~written.ok THEN fail(written.fs)
                 ELSE [ok |-> TRUE, fs |-> written.fs, meta |-> meta]

----------------------------------------------------------------------------
(* State machine *)

NoCmd == [kind |-> "none", link |-> <<>>, dir |-> <<>>]
NotParsed == [done |-> FALSE, res |-> ParseErr("")]

Init ==
    /\ fs = (<<>> :> DirNode)
    /\ pc = "idle"
    /\ cmd = NoCmd
    /\ stack = <<>>
    /\ metas = <<>>
    /\ idx = 1
    /\ last = NoReq
    /\ started = FALSE
    /\ link = <<>>
    /\ parsed = NotParsed

\* the tool is invoked when no invocation is running
CanStart == pc \in {"idle", "done", "failed"}

\* github-dl download <l> --output <output>, up to the call of download_dir
Download(l, output) ==
    /\ CanStart
    /\ LET r == DownloadStart(fs, l, output) IN
         /\ fs' = r.fs
         /\ pc' = IF r.ok THEN "resolve" ELSE "failed"
         /\ stack' = IF r.ok THEN <<Frame(r.meta, output)>> ELSE <<>>
    /\ cmd' = [kind |-> "download", link |-> l, dir |-> output]
    /\ metas' = <<>>
    /\ idx' = 1
    /\ last' = NoReq
    /\ started' = TRUE
    /\ UNCHANGED <<link, parsed>>

\* github-dl refresh --base-dir <base>, up to the for loop (lines 86-91)
Refresh(base) ==
    /\ CanStart
    /\ cmd' = [kind |-> "refresh", link |-> <<>>, dir |-> base]
    /\ IF ~IsDir(fs, base)
       THEN /\ metas' = <<>>
            /\ pc' = "failed"
       ELSE \E found \in find_metadata_files(fs, base) :
              /\ metas' = found
              /\ pc' = IF found = <<>> THEN "done" ELSE "loop"
    /\ idx' = 1
    /\ stack' = <<>>
    /\ last' = NoReq
    /\ started' = TRUE
    /\ UNCHANGED <<fs, link, parsed>>

\* the for loop of line 92 moves to its next descriptor, or ends
LoopPc(i) == IF i > Len(metas) THEN "done" ELSE "loop"

\* lines 93-127: one descriptor of the refresh loop, up to download_dir
RefreshOne ==
    /\ pc = "loop"
    /\ idx <= Len(metas)
    /\ LET meta_file == metas[idx]
           local_dir == Parent(meta_file)
       IN IF ~IsFile(fs, meta_file) \/ ~FromJson(fs[meta_file].data).ok
          THEN /\ pc' = "failed"
               /\ last' = NoReq
               /\ UNCHANGED <<fs, stack, idx>>
          ELSE LET meta == FromJson(fs[meta_file].data).meta IN
               \E status \in Statuses :
                 /\ last' = Req("probe", ListingUrl(meta), status, <<>>, local_dir)
                 /\ CASE ProbeOutcome(status) = "skip" ->
                           /\ idx' = idx + 1
                           /\ pc' = LoopPc(idx + 1)
                           /\ UNCHANGED <<fs, stack>>
                      [] ProbeOutcome(status) = "refresh" ->
                           /\ fs' = ClearFolder(fs, local_dir)
                           /\ stack' = <<Frame(meta, local_dir)>>
                           /\ pc' = "resolve"
                           /\ UNCHANGED idx
                      [] OTHER ->
                           /\ pc' = "failed"
                           /\ UNCHANGED <<fs, stack, idx>>
    /\ started' = FALSE
    /\ UNCHANGED <<cmd, metas, link, parsed>>

Top == stack[Len(stack)]
SetTop(frame) == [stack EXCEPT ![Len(stack)] = frame]

\* lines 176-190: download_dir creates its directory and fetches the listing
\* (the body of a successful listing decodes as a list of entries)
ListDir ==
    /\ pc = "resolve"
    /\ ~Top.listed
    /\ LET made == CreateDirAll(fs, Top.local_path) IN
         /\ fs' = made.fs
         /\ IF ~made.ok
            THEN /\ pc' = "failed"
                 /\ last' = NoReq
                 /\ stack' = <<>>
            ELSE \E status \in Statuses :
                   /\ last' = Req("listing", ListingUrl(Top.meta), status, <<>>,
                                  Top.local_path)
                   /\ IF ListingOutcome(status) # "ok"
                      THEN /\ pc' = "failed"
                           /\ stack' = <<>>
                      ELSE \E items \in ListingsAt(Len(stack)) :
                             /\ stack' = SetTop([Top EXCEPT !.items = items,
                                                            !.listed = TRUE])
                             /\ pc' = "resolve"
    /\ started' = FALSE
    /\ UNCHANGED <<cmd, metas, idx, link, parsed>>

\* lines 191-223: one iteration of the loop over the listing
HandleItem ==
    /\ pc = "resolve"
    /\ Top.listed
    /\ Top.items # <<>>
    /\ LET item == NextItem(Top.items)
           local_file_path == Join(Top.local_path, item.name)
           advanced == SetTop([Top EXCEPT !.items = RestItems(Top.items)])
       IN CASE item.type = "file" /\ item.download_url.some ->
                 \E status \in FileStatuses, bytes \in Bytes :
                   IF FileOutcome(status) # "write"
                   THEN /\ last' = Req("file", item.download_url.v, status, <<>>,
                                       Top.local_path)
                        /\ pc' = "failed"
                        /\ stack' = <<>>
                        /\ UNCHANGED fs
                   ELSE LET written == WriteFile(fs, local_file_path, bytes) IN
                        /\ last' = Req("file", item.download_url.v, status, bytes,
                                       Top.local_path)
                        /\ fs' = written.fs
                        /\ pc' = IF written.ok THEN "resolve" ELSE "failed"
                        /\ stack' = IF written.ok THEN advanced ELSE <<>>
            [] item.type = "dir" ->
                 LET made == CreateDirAll(fs, local_file_path) IN
                   /\ last' = NoReq
                   /\ fs' = made.fs
                   /\ pc' = IF made.ok THEN "resolve" ELSE "failed"
                   /\ stack' = IF made.ok
                               THEN Append(advanced,
                                           Frame(SubMeta(Top.meta, item.name),
                                                 local_file_path))
                               ELSE <<>>
            [] OTHER ->
                 /\ last' = NoReq
                 /\ stack' = advanced
                 /\ UNCHANGED <<fs, pc>>
    /\ started' = FALSE
    /\ UNCHANGED <<cmd, metas, idx, link, parsed>>

\* An error leaves download_dir through every caller (the ? of lines 219, 82
\* and 127): the stack of a failed run is empty.

\* line 224: download_dir returns Ok to its caller (download_dir itself,
\* line 219; the download command, line 82; the refresh loop, line 127)
Return ==
    /\ pc = "resolve"
    /\ Top.listed
    /\ Top.items = <<>>
    /\ stack' = SubSeq(stack, 1, Len(stack) - 1)
    /\ IF Len(stack) > 1
       THEN UNCHANGED <<pc, idx>>
       ELSE IF cmd.kind = "download"
            THEN /\ pc' = "done"
                 /\ UNCHANGED idx
            ELSE /\ idx' = idx + 1
                 /\ pc' = LoopPc(idx + 1)
    /\ last' = NoReq
    /\ started' = FALSE
    /\ UNCHANGED <<fs, cmd, metas, link, parsed>>

Next ==
    \/ \E a \in DownloadArgs : Download(a.link, a.output)
    \/ \E base \in BaseDirs : Refresh(base)
    \/ RefreshOne
    \/ ListDir
    \/ HandleItem
    \/ Return

Spec == Init /\ [][Next]_vars

----------------------------------------------------------------------------
(* Link parsing on its own: parse_github_link applied to every input link *)

InitParse ==
    /\ fs = (<<>> :> DirNode)
    /\ pc = "idle"
    /\ cmd = NoCmd
    /\ stack = <<>>
    /\ metas = <<>>
    /\ idx = 1
    /\ last = NoReq
    /\ started = FALSE
    /\ link \in LinkInputs
    /\ parsed = NotParsed

ParseLink ==
    /\ ~parsed.done
    /\ parsed' = [done |-> TRUE, res |-> parse_github_link(link)]
    /\ UNCHANGED <<fs, pc, cmd, stack, metas, idx, last, started, link>>

NextParse == ParseLink

SpecParse == InitParse /\ [][NextParse]_vars

----------------------------------------------------------------------------
(* Properties *)

DescPath(dir) == Join(dir, DescName)
NewInvocation == started'
ProbeAnswered(status) ==
    pc = "loop" /\ last'.kind = "probe" /\ last'.status = status

\* C1: in a refresh run, a probe answered 404 skips the descriptor: the
\* filesystem is left as it is, download_dir is not called, the run does not
\* fail, and the loop goes on with the next discovered descriptor (or ends
\* successfully when there is none).
C1_NotFoundSkips ==
    [][ProbeAnswered(404) =>
          /\ fs' = fs
          /\ stack' = <<>>
          /\ metas' = metas
          /\ idx' = idx + 1
          /\ pc' = (IF idx + 1 <= Len(metas) THEN "loop" ELSE "done")]_vars

\* a 404 was skipped with the folder's content still there and a further
\* descriptor waiting for its turn
C1_Witness ==
    /\ pc = "loop"
    /\ last.kind = "probe" /\ last.status = 404
    /\ idx = 2 /\ Len(metas) >= 2
    /\ Cardinality(Below(fs, Parent(metas[1]))) > 1

\* C2: in a refresh run, a probe answered 403 fails the run at once: the
\* filesystem is left as it is, download_dir is not called, the loop does
\* not advance, and the only step after the failure is a new invocation.
C2_ForbiddenAborts ==
    [][/\ ProbeAnswered(403) =>
            /\ fs' = fs
            /\ stack' = <<>>
            /\ idx' = idx
            /\ pc' = "failed"
       /\ (pc = "failed" /\ last.kind = "probe" /\ last.status = 403)
            => NewInvocation]_vars

\* a 403 failed the run while descriptors were still waiting and the probed
\* folder still had its content
C2_Witness ==
    /\ pc = "failed"
    /\ last.kind = "probe" /\ last.status = 403
    /\ idx < Len(metas)
    /\ Cardinality(Below(fs, Parent(metas[idx]))) > 1

\* C3: in the download flow the descriptor file is in the output directory,
\* holding the descriptor of the given link, before the first remote request
\* is issued, and it is still on disk whenever a request has been issued,
\* also after the download has failed.
C3_DescriptorBeforeFetch ==
    cmd.kind = "download" =>
      /\ (pc = "resolve" \/ last.kind # "none")
           => IsFile(fs, DescPath(cmd.dir))
      /\ (pc = "resolve" /\ Len(stack) = 1 /\ ~Top.listed)
           => /\ last.kind = "none"
              /\ FromJson(fs[DescPath(cmd.dir)].data).ok
              /\ FromJson(fs[DescPath(cmd.dir)].data).meta.url = cmd.link

\* a download failed on its first listing and the descriptor is on disk
C3_Witness ==
    /\ cmd.kind = "download"
    /\ pc = "failed"
    /\ last.kind = "listing" /\ last.status = 500
    /\ last.at = cmd.dir
    /\ IsFile(fs, DescPath(cmd.dir))
    /\ FromJson(fs[DescPath(cmd.dir)].data).meta.url = cmd.link

\* C4: a descriptor file is never updated in place: as long as a descriptor
\* file exists, no step of a download or a refresh changes its content.
C4_DescriptorNeverUpdated ==
    [][\A p \in DOMAIN fs :
          (p # <<>> /\ FileName(p) = DescName /\ p \in DOMAIN fs')
            => fs'[p] = fs[p]]_vars

\* C5: in a refresh run, when the probe succeeds, the step that goes on to
\* download_dir leaves below the descriptor's folder the descriptor file
\* alone, unchanged, and touches nothing outside the folder.
C5_FolderCleared ==
    [][(pc = "loop" /\ last'.kind = "probe" /\ IsSuccess(last'.status)) =>
          LET dir == Parent(metas[idx]) IN
            /\ pc' = "resolve"
            /\ Len(stack') = 1
            /\ stack'[1].local_path = dir
            /\ ~stack'[1].listed
            /\ Below(fs', dir) = {metas[idx]}
            /\ fs'[metas[idx]] = fs[metas[idx]]
            /\ \A q \in DOMAIN fs :
                 ~(Len(q) > Len(dir) /\ IsPrefix(dir, q))
                   => (q \in DOMAIN fs' /\ fs'[q] = fs[q])]_vars

\* the probe succeeded and download_dir is about to start in the folder
C5_Witness ==
    /\ cmd.kind = "refresh"
    /\ pc = "resolve"
    /\ last.kind = "probe" /\ last.status = 200
    /\ Len(stack) = 1 /\ ~Top.listed
    /\ Below(fs, Top.local_path) = {DescPath(Top.local_path)}

\* C6: when a file fetch at any depth is answered with a non-success status,
\* the run fails in that step, nothing is written or removed by it, and the
\* only step after the failure is a new invocation: no later entry is fetched
\* or written and no request is repeated.
C6_NoPartialSuccess ==
    [][/\ (pc = "resolve" /\ last'.kind = "file" /\ ~IsSuccess(last'.status))
            => (pc' = "failed" /\ fs' = fs)
       /\ (pc = "failed" /\ last.kind = "file")
            => NewInvocation]_vars

\* a fetch failed one level below the folder that is resolved, after an
\* entry of the same listing had been written
C6_Witness ==
    /\ pc = "failed"
    /\ cmd.kind = "download"
    /\ last.kind = "file" /\ last.status = 404
    /\ last.url = RawUrl(DescName)
    /\ last.at = Join(cmd.dir, "s")
    /\ IsFile(fs, Join(last.at, "f"))
    /\ ~Exists(fs, Join(last.at, DescName))

\* C7: a download whose output directory exists and is not empty fails, and
\* its step changes nothing on disk, calls no download_dir and issues no
\* request.
C7_NonEmptyOutputRejected ==
    [][(NewInvocation /\ cmd'.kind = "download"
          /\ IsDir(fs, cmd'.dir) /\ Children(fs, cmd'.dir) # {})
         => (pc' = "failed" /\ fs' = fs /\ stack' = <<>> /\ last' = NoReq)]_vars

\* a download with a well-formed link was rejected for its output directory
C7_Witness ==
    /\ cmd.kind = "download"
    /\ pc = "failed"
    /\ last = NoReq
    /\ parse_github_link(cmd.link).ok
    /\ IsDir(fs, cmd.dir) /\ Children(fs, cmd.dir) # {}
    /\ ~IsFile(fs, DescPath(cmd.dir))

\* C8: download_dir handles the first entry left in its listing.  A file
\* entry with a direct-content reference is fetched from that reference and,
\* on success, the bytes received are the content of local_dir/name.  A
\* directory entry makes local_dir/name a directory and calls download_dir
\* for it with the same owner, repo, reference and url and with path
\* parent + "/" + name, or name alone when parent is empty.  Either way the
\* rest of the listing stays in order for the next step.
C8_ResolveEntries ==
    [][(pc = "resolve" /\ Top.listed /\ Top.items # <<>>) =>
          LET item == Top.items[1]
              target == Top.local_path \o <<item.name>>
              caller == stack'[Len(stack)]
          IN /\ (item.type = "file" /\ item.download_url.some) =>
                  /\ last'.kind = "file"
                  /\ last'.url = item.download_url.v
                  /\ IsSuccess(last'.status) =>
                       /\ IsFile(fs', target)
                       /\ fs'[target].data = last'.body
                       /\ Len(stack') = Len(stack)
                       /\ caller.items = Tail(Top.items)
             /\ item.type = "dir" =>
                  /\ IsDir(fs', target)
                  /\ Len(stack') = Len(stack) + 1
                  /\ caller.items = Tail(Top.items)
                  /\ LET callee == stack'[Len(stack')] IN
                       /\ ~callee.listed
                       /\ callee.local_path = target
                       /\ callee.meta.owner = Top.meta.owner
                       /\ callee.meta.repo = Top.meta.repo
                       /\ callee.meta.reference = Top.meta.reference
                       /\ callee.meta.path =
                            (IF Top.meta.path = <<>> THEN <<item.name>>
                             ELSE Top.meta.path \o <<"/", item.name>>)]_vars

\* a listing of a file and then a directory was resolved below a non-empty
\* path: the file is written and download_dir runs for the directory
C8_Witness ==
    /\ pc = "resolve"
    /\ Len(stack) = 2
    /\ stack[1].meta.path = <<"p">>
    /\ stack[2].meta.path = <<"p", "/", "s">>
    /\ stack[2].local_path = Join(stack[1].local_path, "s")
    /\ stack[1].items = <<>>
    /\ IsFile(fs, Join(stack[1].local_path, "f"))
    /\ fs[Join(stack[1].local_path, "f")].data = <<"b1">>

NonEmpty(seg) == seg # <<>>

\* C9: parsing fails and yields no coordinates for every link whose host is
\* not github.com, or whose path, split on '/' with the empty segments
\* removed, has fewer than 4 segments or a third segment other than "tree".
C9_MalformedRejected ==
    LET url == UrlParse(link)
        segs == SelectSeq(PathSegments(url), NonEmpty)
    IN (parsed.done /\ url.ok
          /\ (\/ url.host # <<"github.com">>
              \/ Len(segs) < 4
              \/ segs[3] # <<"tree">>))
         => (~parsed.res.ok /\ parsed.res.coords = NoCoords)

\* C10: in a refresh run no step taken for one descriptor deletes or alters
\* the descriptor file of another discovered descriptor (a file that reads
\* as a descriptor), nested folders included.
C10_RefreshIndependent ==
    [][(cmd.kind = "refresh" /\ pc \in {"loop", "resolve"}) =>
          \A j \in 1..Len(metas) :
            (j # idx /\ IsFile(fs, metas[j]) /\ FromJson(fs[metas[j]].data).ok)
              => (metas[j] \in DOMAIN fs' /\ fs'[metas[j]] = fs[metas[j]])]_vars

====
